---- MODULE Spec2Model ----
(***************************************************************************)
(* Migration manager (useMigrationManager) and Dashboard controller of     *)
(* cosmo-agents, modelled as a state machine.                              *)
(*                                                                         *)
(* The hosted backend is the tables migrations, migration_files and        *)
(* deployment_logs.                                                        *)
(* Every backend call of a handler resolves to {data, error}; the outcome  *)
(* of each call (ok or error) is an input of the handler, and the handler  *)
(* treats it exactly as the code does (checks it, or ignores it).          *)
(* Time is counted in days.                                              *)
(***************************************************************************)
EXTENDS Integers, Sequences, FiniteSets, TLC

\* ---------------------------------------------------------------- bounds
MaxMigrations == 2      \* session rows the handlers insert
MaxFileRows == 2        \* file rows the handlers insert
MaxTime == 2            \* clock ticks
MaxBatch == 2           \* files in one upload
MaxLogs == 1            \* deployment_logs rows the handlers insert
MaxReconverts == 2      \* handleFileReconvert invocations in flight at once

\* 24 * 60 * 60 * 1000 ms, in units of one day
TwentyFourHours == 1

\* ---------------------------------------------------------------- values
Null == 0                \* null id / null pointer
NullTime == -1           \* SQL NULL in a timestamp column
NullText == "null"       \* SQL NULL in a text / json column
Undefined == "undefined" \* an omitted optional argument or field
NoUser == "nouser"       \* useAuth().user === null
Me == "u1"               \* the signed-in user
Other == "u2"            \* another user of the same backend

\* File names are sequences of characters; toLowerCase acts per character.
LowerChar(c) ==
  CASE c = "O" -> "o"
    [] c = "P" -> "p"
    [] OTHER -> c

ToLowerCase(s) == [i \in DOMAIN s |-> LowerChar(s[i])]

FileNames == { <<"o", "s">>, <<"O", "s">>, <<"p">> }

\* the text of the uploaded file with client id i
ContentOf(i) == <<"text", i>>

VARIABLES
  user,                 \* useAuth().user: NoUser or a user id
  now,                  \* Date.now()
  migrations,           \* table migrations
  migration_files,      \* table migration_files
  deployment_logs,      \* table deployment_logs
  nextMigrationId,      \* next id the backend generates for a migrations row
  nextFileRowId,        \* next id the backend generates for a migration_files row
  currentMigrationId,   \* useState<string | null>(null)
  last,                 \* the last handler run: name, return value, backend calls, log
  held,                 \* history of the ids getOrCreateMigrationId returned
  files,                \* Dashboard: useState<FileItem[]>([])
  selectedFile,         \* Dashboard: useState<FileItem | null>(null), <<>> for null
  activeTab,            \* Dashboard: 'upload' | 'conversion' | 'pending'
  conversionResults,    \* Dashboard: useState<ConversionResult[]>([])
  report,               \* Dashboard: useState<ConversionReport | null>(null)
  showReport,           \* Dashboard: useState(false)
  customPrompt,         \* Dashboard: useState<string>('')
  inFlight,             \* the handleFileReconvert invocations awaiting handleConvertFile
  running               \* handlers of two clients of one user, between their awaits

dash == << files, selectedFile, activeTab, conversionResults, report, showReport >>

\* state only the step-by-step handlers touch
side == << customPrompt, inFlight, running >>

vars == << user, now, migrations, migration_files, deployment_logs, nextMigrationId,
           nextFileRowId, currentMigrationId, last, held, dash, side >>

\* ------------------------------------------------------- backend helpers
FilesOf(rows, mid) == { r \in rows : r.migration_id = mid }

\* ON DELETE CASCADE of migration_files.migration_id
CascadeFiles(rows, ids) == { r \in rows : r.migration_id \notin ids }

\* the foreign key migration_files.migration_id -> migrations.id: a file row is
\* accepted only for a session that is stored
SessionStored(m, mid) == \E r \in m.migrations : r.id = mid

MigrationRow(id, uid, t) == [ id |-> id, user_id |-> uid, created_at |-> t ]

FileRow(id, mid, file) ==
  [ id |-> id, migration_id |-> mid,
    file_name |-> file.name, file_path |-> file.path,
    original_content |-> file.content,
    conversion_status |-> "pending",
    converted_content |-> NullText, error_message |-> NullText,
    data_type_mapping |-> NullText, performance_metrics |-> NullText,
    issues |-> NullText, updated_at |-> NullTime,
    deployment_timestamp |-> NullTime ]

\* The manager's view of the world while one handler runs.
Mgr ==
  [ migrations |-> migrations, migration_files |-> migration_files,
    deployment_logs |-> deployment_logs,
    nextMigrationId |-> nextMigrationId, nextFileRowId |-> nextFileRowId,
    cur |-> currentMigrationId, calls |-> <<>>, log |-> <<>>, ret |-> Null,
    arg |-> Null ]

Called(m, kind, ok) == [ m EXCEPT !.calls = Append(@, <<kind, ok>>) ]

\* ------------------------------------------------------ startNewMigration
startNewMigration(m, insertOk) ==
  IF user = NoUser THEN [ m EXCEPT !.ret = Null ]
  ELSE IF ~insertOk THEN [ Called(m, "insert_migration", FALSE) EXCEPT !.ret = Null ]
  ELSE [ Called(m, "insert_migration", TRUE) EXCEPT
           !.migrations = @ \cup { MigrationRow(m.nextMigrationId, user, now) },
           !.nextMigrationId = @ + 1,
           !.cur = m.nextMigrationId,
           !.ret = m.nextMigrationId ]

\* -------------------------------------------------- getOrCreateMigrationId
\* RecentMigrations without .gte('created_at', twentyFourHoursAgo)
RecentMigrationsAnyAge(m) == { r \in m.migrations : r.user_id = user }

\* .eq('user_id', user?.id).gte('created_at', twentyFourHoursAgo)
RecentMigrations(m) ==
  { r \in m.migrations : r.user_id = user /\ r.created_at >= now - TwentyFourHours }

\* .order('created_at', { ascending: false }).limit(1).single(): the set holding
\* the newest row (rows of one tick are ordered by insertion), or the empty set.
MostRecent(m) ==
  { r \in RecentMigrations(m) :
      \A q \in RecentMigrations(m) :
         q.created_at < r.created_at \/ (q.created_at = r.created_at /\ q.id <= r.id) }

\* getOrCreateMigrationId without the early return on a held pointer
getOrCreateNoFastPath(m, oc) ==
  LET recentMigration == IF oc.selectRecent THEN MostRecent(m) ELSE {}
      m1 == Called(m, "select_recent", oc.selectRecent)
  IN  IF \E r \in recentMigration : FilesOf(m.migration_files, r.id) # {}
      THEN LET r == CHOOSE r \in recentMigration : TRUE
           IN  [ m1 EXCEPT !.cur = r.id, !.ret = r.id ]
      ELSE
        LET m2 ==
              IF recentMigration = {} THEN m1
              ELSE LET r == CHOOSE r \in recentMigration : TRUE
                   IN  IF oc.deleteRecent
                       THEN [ Called(m1, "delete_migration", TRUE) EXCEPT
                                !.migrations = @ \ {r},
                                !.migration_files = CascadeFiles(@, {r.id}) ]
                       ELSE Called(m1, "delete_migration", FALSE)
        IN  startNewMigration(m2, oc.insertMigration)

\* getOrCreateMigrationId reusing the recent session whether or not it has files
getOrCreateReuseEmpty(m, oc) ==
  IF m.cur # Null THEN [ m EXCEPT !.ret = m.cur ]
  ELSE
    LET recentMigration == IF oc.selectRecent THEN MostRecent(m) ELSE {}
        m1 == Called(m, "select_recent", oc.selectRecent)
    IN  IF recentMigration # {}
        THEN LET r == CHOOSE r \in recentMigration : TRUE
             IN  [ m1 EXCEPT !.cur = r.id, !.ret = r.id ]
        ELSE startNewMigration(m1, oc.insertMigration)

getOrCreateMigrationId(m, oc) ==
  IF m.cur # Null THEN [ m EXCEPT !.ret = m.cur ]
  ELSE
    LET recentMigration == IF oc.selectRecent THEN MostRecent(m) ELSE {}
        m1 == Called(m, "select_recent", oc.selectRecent)
    IN  IF \E r \in recentMigration : FilesOf(m.migration_files, r.id) # {}
        THEN LET r == CHOOSE r \in recentMigration : TRUE
             IN  [ m1 EXCEPT !.cur = r.id, !.ret = r.id ]
        ELSE
          LET m2 ==
                IF recentMigration = {} THEN m1
                ELSE LET r == CHOOSE r \in recentMigration : TRUE
                     IN  IF oc.deleteRecent
                         THEN [ Called(m1, "delete_migration", TRUE) EXCEPT
                                  !.migrations = @ \ {r},
                                  !.migration_files = CascadeFiles(@, {r.id}) ]
                         ELSE Called(m1, "delete_migration", FALSE)
          IN  startNewMigration(m2, oc.insertMigration)

\* ------------------------------------------------------- handleCodeUpload
\* uploadedFiles.map(file => ({...})): status forced to pending, the rest cleared
ToFileItem(file) ==
  [ id |-> file.id, name |-> file.name, path |-> file.name,
    content |-> file.content, conversionStatus |-> "pending",
    dataTypeMapping |-> <<>>, issues |-> <<>>,
    performanceMetrics |-> Undefined, convertedContent |-> Undefined,
    errorMessage |-> Undefined ]

ConvertedFiles(uploadedFiles) ==
  [ i \in DOMAIN uploadedFiles |-> ToFileItem(uploadedFiles[i]) ]

\* new Set((existingFiles || []).map(f => f.file_name.toLowerCase()))
ExistingFileNames(m, mid, selectOk) ==
  IF selectOk
  THEN { ToLowerCase(r.file_name) : r \in FilesOf(m.migration_files, mid) }
  ELSE {}

\* for (const file of convertedFiles) { ... }: log holds, per file, "skip" for the
\* console.log of a duplicate, "error" for the console.error of a failed insert,
\* "saved" for an insert that succeeded. An insert fails when the backend answers
\* with an error, as it does for a session that is not stored.
Logged(m, what) == [ m EXCEPT !.log = Append(@, what) ]

\* SaveFiles without existingFileNames.add(...) after an insert
RECURSIVE SaveFilesNoAdd(_, _, _, _, _)
SaveFilesNoAdd(m, mid, fs, existingFileNames, insertOk) ==
  IF fs = <<>> THEN m
  ELSE
    LET file == Head(fs) IN
    IF ToLowerCase(file.name) \in existingFileNames
    THEN SaveFilesNoAdd(Logged(m, "skip"),
                        mid, Tail(fs), existingFileNames, Tail(insertOk))
    ELSE IF Head(insertOk) /\ SessionStored(m, mid)
    THEN SaveFilesNoAdd([ Logged(Called(m, "insert_file", TRUE), "saved") EXCEPT
                            !.migration_files = @ \cup { FileRow(m.nextFileRowId, mid, file) },
                            !.nextFileRowId = @ + 1 ],
                        mid, Tail(fs), existingFileNames, Tail(insertOk))
    ELSE SaveFilesNoAdd(Logged(Called(m, "insert_file", FALSE), "error"),
                        mid, Tail(fs), existingFileNames, Tail(insertOk))

\* SaveFiles leaving the loop at the first insert that fails
RECURSIVE SaveFilesAbort(_, _, _, _, _)
SaveFilesAbort(m, mid, fs, existingFileNames, insertOk) ==
  IF fs = <<>> THEN m
  ELSE
    LET file == Head(fs) IN
    IF ToLowerCase(file.name) \in existingFileNames
    THEN SaveFilesAbort(Logged(m, "skip"),
                        mid, Tail(fs), existingFileNames, Tail(insertOk))
    ELSE IF Head(insertOk) /\ SessionStored(m, mid)
    THEN SaveFilesAbort([ Logged(Called(m, "insert_file", TRUE), "saved") EXCEPT
                            !.migration_files = @ \cup { FileRow(m.nextFileRowId, mid, file) },
                            !.nextFileRowId = @ + 1 ],
                        mid, Tail(fs),
                        existingFileNames \cup { ToLowerCase(file.name) }, Tail(insertOk))
    ELSE Logged(Called(m, "insert_file", FALSE), "error")

RECURSIVE SaveFiles(_, _, _, _, _)
SaveFiles(m, mid, fs, existingFileNames, insertOk) ==
  IF fs = <<>> THEN m
  ELSE
    LET file == Head(fs) IN
    IF ToLowerCase(file.name) \in existingFileNames
    THEN SaveFiles(Logged(m, "skip"),
                   mid, Tail(fs), existingFileNames, Tail(insertOk))
    ELSE IF Head(insertOk) /\ SessionStored(m, mid)
    THEN SaveFiles([ Logged(Called(m, "insert_file", TRUE), "saved") EXCEPT
                       !.migration_files = @ \cup { FileRow(m.nextFileRowId, mid, file) },
                       !.nextFileRowId = @ + 1 ],
                   mid, Tail(fs),
                   existingFileNames \cup { ToLowerCase(file.name) }, Tail(insertOk))
    ELSE SaveFiles(Logged(Called(m, "insert_file", FALSE), "error"),
                   mid, Tail(fs), existingFileNames, Tail(insertOk))

\* handleCodeUpload without its check of the user
handleCodeUploadNoAuth(m, uploadedFiles, oc) ==
  LET m1 == getOrCreateMigrationId(m, oc)
      migrationId == m1.ret
  IN  IF migrationId = Null THEN [ m1 EXCEPT !.ret = <<>> ]
      ELSE
        LET convertedFiles == ConvertedFiles(uploadedFiles)
            m2 == Called(m1, "select_files", oc.selectFiles)
            m3 == SaveFiles(m2, migrationId, convertedFiles,
                            ExistingFileNames(m1, migrationId, oc.selectFiles),
                            oc.insertFile)
        IN  [ m3 EXCEPT !.ret = convertedFiles ]

handleCodeUpload(m, uploadedFiles, oc) ==
  IF user = NoUser THEN [ m EXCEPT !.ret = <<>> ]
  ELSE
    LET m1 == getOrCreateMigrationId(m, oc)
        migrationId == m1.ret
    IN  IF migrationId = Null THEN [ m1 EXCEPT !.ret = <<>> ]
        ELSE
          LET convertedFiles == ConvertedFiles(uploadedFiles)
              m2 == Called(m1, "select_files", oc.selectFiles)
              m3 == SaveFiles(m2, migrationId, convertedFiles,
                              ExistingFileNames(m1, migrationId, oc.selectFiles),
                              oc.insertFile)
          IN  [ m3 EXCEPT !.ret = convertedFiles ]

\* -------------------------------------------------------- updateFileStatus
\* the update payload: status and updated_at always, each other column exactly
\* when its argument is not undefined
NoColumns == [ c \in {} |-> c ]

Column(name, value) == IF value # Undefined THEN name :> value ELSE NoColumns

\* UpdateData sending every column, an omitted argument as SQL NULL
UpdateDataAllColumns(status, a) ==
  [ conversion_status |-> status, updated_at |-> now,
    converted_content |->
      IF a.convertedContent # Undefined THEN a.convertedContent ELSE NullText,
    error_message |-> IF a.errorMessage # Undefined THEN a.errorMessage ELSE NullText,
    data_type_mapping |->
      IF a.dataTypeMapping # Undefined THEN a.dataTypeMapping ELSE NullText,
    performance_metrics |->
      IF a.performanceMetrics # Undefined THEN a.performanceMetrics ELSE NullText,
    issues |-> IF a.issues # Undefined THEN a.issues ELSE NullText ]

UpdateData(status, a) ==
  ("conversion_status" :> status) @@ ("updated_at" :> now)
    @@ Column("converted_content", a.convertedContent)
    @@ Column("error_message", a.errorMessage)
    @@ Column("data_type_mapping", a.dataTypeMapping)
    @@ Column("performance_metrics", a.performanceMetrics)
    @@ Column("issues", a.issues)

\* supabase.from('migration_files').update(updateData).eq('id', fileId)
UpdateRows(rows, fileId, updateData) ==
  { IF r.id = fileId
    THEN [ c \in DOMAIN r |-> IF c \in DOMAIN updateData THEN updateData[c] ELSE r[c] ]
    ELSE r : r \in rows }

updateFileStatus(m0, fileId, status, a, updateOk) ==
  LET m == [ m0 EXCEPT !.arg = [ fileId |-> fileId, status |-> status, opt |-> a ] ] IN
  IF ~updateOk THEN [ Called(m, "update_file", FALSE) EXCEPT !.ret = FALSE ]
  ELSE [ Called(m, "update_file", TRUE) EXCEPT
           !.migration_files = UpdateRows(@, fileId, UpdateData(status, a)),
           !.ret = TRUE ]

\* -------------------------------------------------------- markFileAsDeployed
markFileAsDeployed(m0, fileId, updateOk) ==
  LET m == [ m0 EXCEPT !.arg = fileId ] IN
  IF ~updateOk THEN [ Called(m, "update_file", FALSE) EXCEPT !.ret = FALSE ]
  ELSE [ Called(m, "update_file", TRUE) EXCEPT
           !.migration_files =
              UpdateRows(@, fileId,
                         [ conversion_status |-> "deployed",
                           deployment_timestamp |-> now, updated_at |-> now ]),
           !.ret = TRUE ]

\* ------------------------------------------------------ saveDeploymentLog
LogRow(id, a, cur) ==
  [ id |-> id, user_id |-> user,
    migration_id |-> IF a.migrationId # Null THEN a.migrationId ELSE cur,
    status |-> a.status ]

saveDeploymentLog(m0, a, insertOk) ==
  LET m == [ m0 EXCEPT !.arg = a ]
  IN  IF user = NoUser THEN [ m EXCEPT !.ret = Null ]
      ELSE IF ~insertOk THEN [ Called(m, "insert_log", FALSE) EXCEPT !.ret = Null ]
      ELSE LET data == LogRow(Cardinality(m.deployment_logs) + 1, a, m.cur)
           IN  [ Called(m, "insert_log", TRUE) EXCEPT
                   !.deployment_logs = @ \cup { data },
                   !.ret = data.id ]

\* ------------------------------------------------- cleanupEmptyMigrations
\* .eq('user_id', user?.id).lt('created_at', twentyFourHoursAgo)
OldMigrations(m) ==
  { r \in m.migrations : r.user_id = user /\ r.created_at < now - TwentyFourHours }

\* cleanupEmptyMigrations without .filter(m => m.migration_files.length === 0)
cleanupAllOld(m, oc) ==
  LET m1 == Called(m, "select_old", oc.selectOld) IN
  IF ~oc.selectOld THEN m1
  ELSE
    LET migrationsToDelete == { r.id : r \in OldMigrations(m) }
    IN  IF migrationsToDelete = {} THEN m1
        ELSE IF ~oc.deleteOld THEN Called(m1, "delete_migrations", FALSE)
        ELSE [ Called(m1, "delete_migrations", TRUE) EXCEPT
                 !.migrations = { r \in @ : r.id \notin migrationsToDelete },
                 !.migration_files = CascadeFiles(@, migrationsToDelete) ]

cleanupEmptyMigrations(m, oc) ==
  LET m1 == Called(m, "select_old", oc.selectOld) IN
  IF ~oc.selectOld THEN m1
  ELSE
    LET migrationsToDelete ==
          { r.id : r \in { q \in OldMigrations(m) : FilesOf(m.migration_files, q.id) = {} } }
    IN  IF migrationsToDelete = {} THEN m1
        ELSE IF ~oc.deleteOld THEN Called(m1, "delete_migrations", FALSE)
        ELSE [ Called(m1, "delete_migrations", TRUE) EXCEPT
                 !.migrations = { r \in @ : r.id \notin migrationsToDelete },
                 !.migration_files = CascadeFiles(@, migrationsToDelete) ]

\* --------------------------------------------------------- deleteMigration
\* deleteMigration clearing the pointer whatever id was deleted
deleteMigrationAlwaysClear(m0, migrationId, oc) ==
  LET m == [ m0 EXCEPT !.arg = migrationId ] IN
  IF ~oc.deleteFiles THEN [ Called(m, "delete_files", FALSE) EXCEPT !.ret = FALSE ]
  ELSE
    LET m1 == [ Called(m, "delete_files", TRUE) EXCEPT
                  !.migration_files = @ \ FilesOf(@, migrationId) ]
    IN  IF ~oc.deleteMigration
        THEN [ Called(m1, "delete_migration", FALSE) EXCEPT !.ret = FALSE ]
        ELSE [ Called(m1, "delete_migration", TRUE) EXCEPT
                 !.migrations = { r \in @ : r.id # migrationId },
                 !.migration_files = CascadeFiles(@, {migrationId}),
                 !.cur = Null,
                 !.ret = TRUE ]

\* deleteMigration going on to the session row after a failed deletion of the files
deleteMigrationNoFilesCheck(m0, migrationId, oc) ==
  LET m == [ m0 EXCEPT !.arg = migrationId ]
      m1 == IF oc.deleteFiles
            THEN [ Called(m, "delete_files", TRUE) EXCEPT
                     !.migration_files = @ \ FilesOf(@, migrationId) ]
            ELSE Called(m, "delete_files", FALSE)
  IN  IF ~oc.deleteMigration
      THEN [ Called(m1, "delete_migration", FALSE) EXCEPT !.ret = FALSE ]
      ELSE [ Called(m1, "delete_migration", TRUE) EXCEPT
               !.migrations = { r \in @ : r.id # migrationId },
               !.migration_files = CascadeFiles(@, {migrationId}),
               !.cur = IF m.cur = migrationId THEN Null ELSE m.cur,
               !.ret = TRUE ]

deleteMigration(m0, migrationId, oc) ==
  LET m == [ m0 EXCEPT !.arg = migrationId ] IN
  IF ~oc.deleteFiles THEN [ Called(m, "delete_files", FALSE) EXCEPT !.ret = FALSE ]
  ELSE
    LET m1 == [ Called(m, "delete_files", TRUE) EXCEPT
                  !.migration_files = @ \ FilesOf(@, migrationId) ]
    IN  IF ~oc.deleteMigration
        THEN [ Called(m1, "delete_migration", FALSE) EXCEPT !.ret = FALSE ]
        ELSE [ Called(m1, "delete_migration", TRUE) EXCEPT
                 !.migrations = { r \in @ : r.id # migrationId },
                 !.migration_files = CascadeFiles(@, {migrationId}),
                 !.cur = IF m.cur = migrationId THEN Null ELSE m.cur,
                 !.ret = TRUE ]

\* ------------------------------------------------ createFailedFileMigration
createFailedFileMigration(m, insertOk) ==
  IF user = NoUser THEN [ m EXCEPT !.ret = Null ]
  ELSE IF ~insertOk THEN [ Called(m, "insert_migration", FALSE) EXCEPT !.ret = Null ]
  ELSE [ Called(m, "insert_migration", TRUE) EXCEPT
           !.migrations = @ \cup { MigrationRow(m.nextMigrationId, user, now) },
           !.nextMigrationId = @ + 1,
           !.ret = m.nextMigrationId ]

\* ----------------------------------------------------------------- inputs
\* the outcome (ok or error) of each backend call a handler may make
GetOrCreateOutcomes ==
  [ selectRecent : BOOLEAN, deleteRecent : BOOLEAN, insertMigration : BOOLEAN ]

UploadOutcomes(n) ==
  [ selectRecent : BOOLEAN, deleteRecent : BOOLEAN, insertMigration : BOOLEAN,
    selectFiles : BOOLEAN, insertFile : [1..n -> BOOLEAN] ]

CleanupOutcomes == [ selectOld : BOOLEAN, deleteOld : BOOLEAN ]

DeleteOutcomes == [ deleteFiles : BOOLEAN, deleteMigration : BOOLEAN ]

UploadedFile(i, n) == [ id |-> i, name |-> n, content |-> ContentOf(i) ]

\* uploads of at most maxLen files named in names, the client ids drawn from ids
\* and pairwise distinct
Batches(ids, names, maxLen) ==
  UNION { { b \in [1..n -> { UploadedFile(i, nm) : i \in ids, nm \in names }] :
              \A i, j \in 1..n : i # j => b[i].id # b[j].id }
          : n \in 0..maxLen }

\* every upload whose k-th file has client id k
AllBatches ==
  { b \in Batches(1..MaxBatch, FileNames, MaxBatch) : \A k \in DOMAIN b : b[k].id = k }

\* the empty upload and the upload of one file
SmallBatches == Batches({1}, { <<"p">> }, 1)

\* every outcome of the file calls of an upload, the session calls succeeding
FileOutcomes(n) ==
  { oc \in UploadOutcomes(n) :
      oc.selectRecent /\ oc.deleteRecent /\ oc.insertMigration }

\* one upload of two files
PairBatches ==
  { b \in AllBatches : Len(b) = 2 /\ b[1].name = <<"o", "s">> /\ b[2].name = <<"p">> }

\* every backend call of an upload succeeding
OkOutcomes(n) ==
  { oc \in FileOutcomes(n) : oc.selectFiles /\ \A i \in 1..n : oc.insertFile[i] }

\* the uploads of the Dashboard: none, one or two files
DashBatches ==
  { b \in AllBatches :
      \A k \in DOMAIN b : b[k].name = IF k = 1 THEN <<"o", "s">> ELSE <<"p">> }

\* every outcome of the session calls of an upload, the file calls succeeding
SessionOutcomes(n) ==
  { oc \in UploadOutcomes(n) : oc.selectFiles /\ \A i \in 1..n : oc.insertFile[i] }

\* the uploads of the life cycle of sessions: any outcome of any call
SmallUploads ==
  UNION { { [files |-> b, oc |-> oc] : oc \in UploadOutcomes(Len(b)) } : b \in SmallBatches }

\* the uploads of the duplicate check: any names, any outcome of the file calls
AllUploads ==
  UNION { { [files |-> b, oc |-> oc] : oc \in FileOutcomes(Len(b)) } : b \in AllBatches }

\* the uploads that store the two rows the status updates act on
PairUploads ==
  UNION { { [files |-> b, oc |-> oc] : oc \in OkOutcomes(Len(b)) } : b \in PairBatches }

\* an uploaded file that carries metadata of an earlier conversion
StaleFile(i, n) ==
  [ id |-> i, name |-> n, content |-> ContentOf(i), conversionStatus |-> "success",
    convertedContent |-> "a", errorMessage |-> "a" ]

\* the uploads of the batch loop: any names, the files all with or all without
\* metadata, any outcome of the file calls
BatchUploads ==
  UNION { { [files |-> [k \in DOMAIN b |-> IF st THEN StaleFile(k, b[k].name) ELSE b[k]],
             oc |-> oc] :
              oc \in FileOutcomes(Len(b)), st \in BOOLEAN }
          : b \in AllBatches }

\* the uploads made from the dashboard
DashUploads ==
  UNION { { [files |-> b, oc |-> oc] : oc \in SessionOutcomes(Len(b)) } : b \in DashBatches }

Statuses == { "pending", "success", "failed", "deployed" }

\* the optional arguments of updateFileStatus: each omitted or given
OptionalArgs ==
  [ convertedContent : { Undefined, "a", "b" }, errorMessage : { Undefined, "a" },
    dataTypeMapping : { Undefined, "a" }, performanceMetrics : { Undefined, "a" },
    issues : { Undefined, "a" } ]

NoArgs ==
  [ convertedContent |-> Undefined, errorMessage |-> Undefined,
    dataTypeMapping |-> Undefined, performanceMetrics |-> Undefined,
    issues |-> Undefined ]

\* the calls of updateFileStatus: every status and argument list on the first row
\* stored (no row, before the first upload), the update succeeding; a failing
\* update is tried with the optional arguments omitted
UpdateCalls ==
  { c \in [ fileId : {1}, status : Statuses, opt : OptionalArgs, ok : BOOLEAN ] :
      ~c.ok => c.opt = NoArgs }

\* the ids deleteMigration is called with: sessions the user owns, or has owned
OwnIds ==
  { i \in 1..(nextMigrationId - 1) :
      \A r \in migrations : r.id = i => r.user_id = user }

\* the overlapping invocations of window.handleFileReconvert
Invocations == 1..MaxReconverts
NoPrompt == ""
Prompts == { "p1", "p2" }
NotInFlight == [ fileId |-> Null, prompt |-> NoPrompt ]
NotRunning == [ upload |-> <<>>, other |-> <<>> ]

\* ---------------------------------------------------------------- actions
Bounded(m) ==
  /\ m.nextMigrationId <= MaxMigrations + 1
  /\ m.nextFileRowId <= MaxFileRows + 1
  /\ Cardinality(m.deployment_logs) <= MaxLogs

\* what is seen of a handler run: its name and argument, the pointer it started
\* from, its return value, its backend calls and its log
Stamp(op, m) ==
  [ op |-> op, arg |-> m.arg, cur0 |-> currentMigrationId, ret |-> m.ret,
    calls |-> m.calls, log |-> m.log, flip |-> 1 - last.flip ]

\* The handler ran to completion: its effects on the backend and on the hook state.
Ran(op, m) ==
  /\ Bounded(m)
  /\ migrations' = m.migrations
  /\ migration_files' = m.migration_files
  /\ deployment_logs' = m.deployment_logs
  /\ nextMigrationId' = m.nextMigrationId
  /\ nextFileRowId' = m.nextFileRowId
  /\ currentMigrationId' = m.cur
  /\ last' = Stamp(op, m)
  /\ UNCHANGED side

NoHeld == [ since |-> Null, sinceStart |-> Null, again |-> FALSE ]

Init ==
  /\ user \in { NoUser, Me }
  /\ now = 0
  /\ migrations = { MigrationRow(-1, Other, 0) }
  /\ migration_files = {}
  /\ deployment_logs = {}
  /\ nextMigrationId = 1
  /\ nextFileRowId = 1
  /\ currentMigrationId = Null
  /\ last = [ op |-> "init", arg |-> Null, cur0 |-> Null, ret |-> Null,
              calls |-> <<>>, log |-> <<>>, flip |-> 0 ]
  /\ held = NoHeld
  /\ files = <<>>
  /\ selectedFile = <<>>
  /\ activeTab = "upload"
  /\ conversionResults = <<>>
  /\ report = NullText
  /\ showReport = FALSE
  /\ customPrompt = NoPrompt
  /\ inFlight = [ k \in Invocations |-> NotInFlight ]
  /\ running = NotRunning

Tick ==
  /\ now < MaxTime
  /\ now' = now + 1
  /\ last' = Stamp("tick", Mgr)
  /\ UNCHANGED << user, migrations, migration_files, deployment_logs,
                  nextMigrationId, nextFileRowId, currentMigrationId, side >>

StartNewMigration ==
  /\ \E ok \in BOOLEAN :
     \E m \in { startNewMigration(Mgr, ok) } : Ran("startNewMigration", m)
  /\ UNCHANGED << user, now >>

GetOrCreateMigrationId ==
  /\ \E oc \in GetOrCreateOutcomes :
     \E m \in { getOrCreateMigrationId(Mgr, oc) } : Ran("getOrCreateMigrationId", m)
  /\ UNCHANGED << user, now >>

CreateFailedFileMigration ==
  /\ \E ok \in BOOLEAN :
     \E m \in { createFailedFileMigration(Mgr, ok) } :
        Ran("createFailedFileMigration", m)
  /\ UNCHANGED << user, now >>

HandleCodeUpload(uploads) ==
  /\ \E u \in uploads :
     \E m \in { [ handleCodeUpload(Mgr, u.files, u.oc) EXCEPT !.arg = u.files ] } :
        Ran("handleCodeUpload", m)
  /\ UNCHANGED << user, now >>

CleanupEmptyMigrations ==
  /\ \E oc \in CleanupOutcomes :
     \E m \in { cleanupEmptyMigrations(Mgr, oc) } : Ran("cleanupEmptyMigrations", m)
  /\ UNCHANGED << user, now >>

DeleteMigration ==
  /\ \E id \in OwnIds :
     \E oc \in DeleteOutcomes :
     \E m \in { deleteMigration(Mgr, id, oc) } : Ran("deleteMigration", m)
  /\ UNCHANGED << user, now >>

\* the setter the hook returns
SetCurrentMigrationId ==
  /\ \E id \in {Null} \cup { r.id : r \in { q \in migrations : q.user_id = user } } :
        Ran("setCurrentMigrationId", [ Mgr EXCEPT !.cur = id, !.arg = id ])
  /\ UNCHANGED << user, now >>

UpdateFileStatus ==
  /\ \E c \in UpdateCalls :
     \E m \in { updateFileStatus(Mgr, c.fileId, c.status, c.opt, c.ok) } :
        Ran("updateFileStatus", m)
  /\ UNCHANGED << user, now >>

MarkFileAsDeployed ==
  /\ \E fileId \in {1}, ok \in BOOLEAN :
     \E m \in { markFileAsDeployed(Mgr, fileId, ok) } : Ran("markFileAsDeployed", m)
  /\ UNCHANGED << user, now >>

\* the arguments of saveDeploymentLog: the session named, or none (migrationId
\* omitted is falsy, as Null is) and the pointer used
LogCalls == [ status : { "Success", "Failed" }, migrationId : { Null, 1 } ]

SaveDeploymentLog ==
  /\ \E a \in LogCalls, ok \in BOOLEAN :
     \E m \in { saveDeploymentLog(Mgr, a, ok) } : Ran("saveDeploymentLog", m)
  /\ UNCHANGED << user, now >>

\* the user signs out while the hook is mounted: useAuth().user becomes null
SignOut ==
  /\ user # NoUser
  /\ user' = NoUser
  /\ last' = Stamp("signOut", Mgr)
  /\ UNCHANGED << now, migrations, migration_files, deployment_logs,
                  nextMigrationId, nextFileRowId, currentMigrationId, side >>

\* history of getOrCreateMigrationId: kept by SpecIdem, idle elsewhere
Idle == UNCHANGED << held, dash >>

\* since: the id the first getOrCreateMigrationId call returned since the last
\* deleteMigration or setCurrentMigrationId; sinceStart: the same, since the last
\* of those or startNewMigration; again: the last call was a later one
Track ==
  /\ UNCHANGED dash
  /\ held' =
    CASE last'.op \in { "deleteMigration", "setCurrentMigrationId" } -> NoHeld
      [] last'.op = "startNewMigration" ->
           [ held EXCEPT !.sinceStart = Null, !.again = FALSE ]
      [] last'.op = "getOrCreateMigrationId" ->
           [ since |-> IF held.since = Null THEN last'.ret ELSE held.since,
             sinceStart |-> IF held.sinceStart = Null THEN last'.ret
                            ELSE held.sinceStart,
             again |-> held.sinceStart # Null ]
      [] OTHER -> [ held EXCEPT !.again = FALSE ]

\* ---------------------------------------------------------------- Dashboard
\* useEffect(() => { if (files.length > 0 && !selectedFile) ... }, [files, selectedFile])
FirstConverted(fs) ==
  LET found == { i \in DOMAIN fs : fs[i].convertedContent # Undefined }
  IN  IF found = {} THEN fs[1]
      ELSE fs[CHOOSE i \in found : \A j \in found : i <= j]

AutoSelect(fs, sel) ==
  IF Len(fs) > 0 /\ sel = <<>> THEN << FirstConverted(fs) >> ELSE sel

\* what the page renders: the report view, or the tabs
ReportShown == showReport /\ report # NullText
TabShown(t) == user # NoUser /\ ~ReportShown /\ activeTab = t

\* a handler that calls no backend
Local(op, arg) ==
  /\ last' = [ Stamp(op, Mgr) EXCEPT !.arg = arg ]
  /\ UNCHANGED << user, now, migrations, migration_files, deployment_logs,
                  nextMigrationId, nextFileRowId, currentMigrationId, held, side >>

SetActiveTab ==
  /\ user # NoUser /\ ~ReportShown
  /\ \E t \in { "upload", "conversion", "pending" } :
        /\ t # activeTab
        /\ activeTab' = t
        /\ Local("setActiveTab", t)
  /\ UNCHANGED << files, selectedFile, conversionResults, report, showReport >>

HandleCodeUploadWrapper ==
  /\ TabShown("upload")
  /\ \E u \in DashUploads :
     \E m \in { handleCodeUpload(Mgr, u.files, u.oc) } :
        /\ Ran("handleCodeUploadWrapper", m)
        /\ files' = m.ret
        /\ selectedFile' = AutoSelect(m.ret, selectedFile)
  /\ activeTab' = "conversion"
  /\ UNCHANGED << user, now, held, conversionResults, report, showReport >>

HandleFileSelect ==
  /\ TabShown("conversion")
  /\ \E i \in DOMAIN files :
        /\ selectedFile' = << files[i] >>
        /\ Local("handleFileSelect", files[i].id)
  /\ UNCHANGED << files, activeTab, conversionResults, report, showReport >>

\* prevFiles.map(file => file.id === selectedFile.id ? updatedFile : file)
ReplaceById(fs, id, updatedFile) ==
  [ i \in DOMAIN fs |-> IF fs[i].id = id THEN updatedFile ELSE fs[i] ]

HandleManualEdit ==
  /\ TabShown("conversion")
  /\ selectedFile # <<>>
  /\ \E newContent \in { "x", "y" } :
        LET updatedFile == [ selectedFile[1] EXCEPT !.convertedContent = newContent ]
        IN  /\ files' = ReplaceById(files, selectedFile[1].id, updatedFile)
            /\ selectedFile' = << updatedFile >>
            /\ Local("handleManualEdit", newContent)
  /\ UNCHANGED << activeTab, conversionResults, report, showReport >>

\* i.id !== issueId
WithoutIssue(issues, issueId) == SelectSeq(issues, LAMBDA i : i # issueId)

HandleDismissIssue ==
  /\ TabShown("conversion")
  /\ selectedFile # <<>>
  /\ \E i \in DOMAIN files : files[i].id = selectedFile[1].id
  /\ \E issueId \in { "i1" } :
        LET fileIdx == CHOOSE i \in DOMAIN files :
                          /\ files[i].id = selectedFile[1].id
                          /\ \A j \in DOMAIN files :
                                files[j].id = selectedFile[1].id => i <= j
            updatedIssues == WithoutIssue(selectedFile[1].issues, issueId)
        IN  /\ files' = [ files EXCEPT ![fileIdx].issues = updatedIssues ]
            /\ selectedFile' = << [ selectedFile[1] EXCEPT !.issues = updatedIssues ] >>
            /\ Local("handleDismissIssue", issueId)
  /\ UNCHANGED << activeTab, conversionResults, report, showReport >>

HandleResetMigration ==
  /\ TabShown("conversion")
  /\ \E oc \in SessionOutcomes(0) :
     \E m \in { handleCodeUpload(Mgr, <<>>, oc) } : Ran("handleResetMigration", m)
  /\ files' = <<>>
  /\ conversionResults' = <<>>
  /\ selectedFile' = AutoSelect(<<>>, <<>>)
  /\ report' = NullText
  /\ activeTab' = "upload"
  /\ UNCHANGED << user, now, held, showReport >>

\* the conversion collaborator (useEnhancedConversionLogic): converts one file of the
\* list through setFiles and records the result through setConversionResults
HandleConvertFile ==
  /\ TabShown("conversion")
  /\ Len(conversionResults) < MaxBatch
  /\ \E i \in DOMAIN files :
        /\ files[i].convertedContent = Undefined
        /\ files' = [ files EXCEPT ![i].conversionStatus = "success",
                                   ![i].convertedContent = "converted",
                                   ![i].issues = << "i1" >> ]
        /\ conversionResults' = Append(conversionResults, files[i].id)
        /\ selectedFile' = AutoSelect(files', selectedFile)
        /\ Local("handleConvertFile", files[i].id)
  /\ UNCHANGED << activeTab, report, showReport >>

\* what handleConvertFile(fileId) leaves in the file list
Converted(fs, fileId) ==
  [ i \in DOMAIN fs |->
      IF fs[i].id = fileId
      THEN [ fs[i] EXCEPT !.conversionStatus = "success",
                          !.convertedContent = "converted",
                          !.issues = << "i1" >> ]
      ELSE fs[i] ]

\* a step of the dashboard that calls no backend and is no whole handler
DashStep(op, arg) ==
  /\ last' = [ Stamp(op, Mgr) EXCEPT !.arg = arg ]
  /\ UNCHANGED << user, now, migrations, migration_files, deployment_logs,
                  nextMigrationId, nextFileRowId, currentMigrationId, held, running >>

\* window.handleFileReconvert(fileId, customPrompt), up to its await: the prompt is
\* set and handleConvertFile(fileId) is started
HandleFileReconvert ==
  /\ TabShown("conversion")
  /\ \E k \in Invocations, i \in DOMAIN files, prompt \in Prompts :
        /\ inFlight[k] = NotInFlight
        /\ customPrompt' = prompt
        /\ inFlight' = [ inFlight EXCEPT ![k] = [ fileId |-> files[i].id, prompt |-> prompt ] ]
        /\ DashStep("handleFileReconvert", k)
  /\ UNCHANGED dash

\* handleConvertFile(fileId) resolves and the invocation goes on after its await:
\* the prompt is reset
HandleFileReconvertResume ==
  /\ \E k \in Invocations :
        /\ inFlight[k] # NotInFlight
        /\ files' = Converted(files, inFlight[k].fileId)
        /\ conversionResults' =
              IF \E j \in DOMAIN conversionResults : conversionResults[j] = inFlight[k].fileId
              THEN conversionResults
              ELSE Append(conversionResults, inFlight[k].fileId)
        /\ selectedFile' = AutoSelect(files', selectedFile)
        /\ customPrompt' = NoPrompt
        /\ inFlight' = [ inFlight EXCEPT ![k] = NotInFlight ]
        /\ DashStep("handleFileReconvertResume", k)
  /\ UNCHANGED << activeTab, report, showReport >>

\* handleGenerateReport() yields a report or nothing
HandleGenerateReportWrapper ==
  /\ TabShown("conversion")
  /\ \E newReport \in { NullText, "report" } :
        /\ report' = IF newReport # NullText THEN newReport ELSE report
        /\ showReport' = IF newReport # NullText THEN TRUE ELSE showReport
        /\ Local("handleGenerateReportWrapper", newReport)
  /\ UNCHANGED << files, selectedFile, activeTab, conversionResults >>

\* ReportViewer onBack
CloseReport ==
  /\ user # NoUser /\ ReportShown
  /\ showReport' = FALSE
  /\ Local("closeReport", Null)
  /\ UNCHANGED << files, selectedFile, activeTab, conversionResults, report >>

\* ------------------------------------------- two clients, one await at a time
\* One step of a handler, from one await to the next: its effects on the backend
\* and on the hook state of the uploading client.
Stepped(op, m) ==
  /\ Bounded(m)
  /\ migrations' = m.migrations
  /\ migration_files' = m.migration_files
  /\ deployment_logs' = m.deployment_logs
  /\ nextMigrationId' = m.nextMigrationId
  /\ nextFileRowId' = m.nextFileRowId
  /\ currentMigrationId' = m.cur
  /\ last' = Stamp(op, m)
  /\ UNCHANGED << user, now, held, dash, customPrompt, inFlight >>

\* the backend calls of the interleaved handlers succeed
OkSession == [ selectRecent |-> TRUE, deleteRecent |-> TRUE, insertMigration |-> TRUE ]

\* handleCodeUpload up to the session: await getOrCreateMigrationId()
UploadSession ==
  /\ user # NoUser
  /\ running.upload = <<>>
  /\ \E b \in DashBatches :
     \E m \in { getOrCreateMigrationId(Mgr, OkSession) } :
        /\ m.ret # Null
        /\ running' = [ running EXCEPT !.upload =
                          << [ migrationId |-> m.ret, convertedFiles |-> ConvertedFiles(b),
                               existingFileNames |-> {}, pc |-> "select" ] >> ]
        /\ Stepped("handleCodeUpload.session", m)

\* handleCodeUpload: await the select of the file names of the session
UploadSelect ==
  /\ running.upload # <<>>
  /\ running.upload[1].pc = "select"
  /\ LET u == running.upload[1] IN
     /\ running' = [ running EXCEPT !.upload =
                       IF u.convertedFiles = <<>> THEN <<>>
                       ELSE << [ u EXCEPT
                                   !.existingFileNames =
                                      ExistingFileNames(Mgr, u.migrationId, TRUE),
                                   !.pc = "save" ] >> ]
     /\ Stepped("handleCodeUpload.select", Called(Mgr, "select_files", TRUE))

\* handleCodeUpload: one turn of the loop, a skip or an awaited insert
UploadSave ==
  /\ running.upload # <<>>
  /\ running.upload[1].pc = "save"
  /\ LET u == running.upload[1]
         file == Head(u.convertedFiles)
     IN  \E m \in { SaveFiles(Mgr, u.migrationId, << file >>, u.existingFileNames,
                              << TRUE >>) } :
           /\ running' = [ running EXCEPT !.upload =
                             IF Tail(u.convertedFiles) = <<>> THEN <<>>
                             ELSE << [ u EXCEPT
                                         !.convertedFiles = Tail(@),
                                         !.existingFileNames =
                                            IF m.log = << "saved" >>
                                            THEN @ \cup { ToLowerCase(file.name) }
                                            ELSE @ ] >> ]
           /\ Stepped("handleCodeUpload.save", m)

\* cleanupEmptyMigrations in the other client: await the select of the old
\* sessions, then filter the empty ones
OtherCleanupSelect ==
  /\ user # NoUser
  /\ running.other = <<>>
  /\ LET migrationsToDelete ==
           { r.id : r \in { q \in OldMigrations(Mgr) :
                               FilesOf(migration_files, q.id) = {} } }
     IN  /\ migrationsToDelete # {}
         /\ running' = [ running EXCEPT !.other =
                           << [ op |-> "cleanupEmptyMigrations", pc |-> "delete",
                                ids |-> migrationsToDelete ] >> ]
  /\ Stepped("cleanupEmptyMigrations.select", Called(Mgr, "select_old", TRUE))

\* getOrCreateMigrationId in the other client, whose pointer is null: await the
\* select of the most recent session; one that has files would be reused
OtherGetOrCreateSelect ==
  /\ user # NoUser
  /\ running.other = <<>>
  /\ LET recentMigration == MostRecent(Mgr) IN
     /\ \A r \in recentMigration : FilesOf(migration_files, r.id) = {}
     /\ running' = [ running EXCEPT !.other =
                       << [ op |-> "getOrCreateMigrationId",
                            pc |-> IF recentMigration = {} THEN "insert" ELSE "delete",
                            ids |-> { r.id : r \in recentMigration } ] >> ]
  /\ Stepped("getOrCreateMigrationId.select", Called(Mgr, "select_recent", TRUE))

\* either handler of the other client: await the delete of the sessions it read as
\* empty
OtherDelete ==
  /\ running.other # <<>>
  /\ running.other[1].pc = "delete"
  /\ LET o == running.other[1]
         m == [ Called(Mgr, "delete_migration", TRUE) EXCEPT
                  !.migrations = { r \in @ : r.id \notin o.ids },
                  !.migration_files = CascadeFiles(@, o.ids) ]
     IN  /\ running' = [ running EXCEPT !.other =
                           IF o.op = "cleanupEmptyMigrations" THEN <<>>
                           ELSE << [ o EXCEPT !.pc = "insert" ] >> ]
         /\ Stepped(IF o.op = "cleanupEmptyMigrations"
                    THEN "cleanupEmptyMigrations.delete"
                    ELSE "getOrCreateMigrationId.delete", m)

\* getOrCreateMigrationId in the other client: await startNewMigration(), which
\* sets the pointer of that client
OtherInsert ==
  /\ running.other # <<>>
  /\ running.other[1].pc = "insert"
  /\ \E m \in { [ startNewMigration(Mgr, TRUE) EXCEPT !.cur = currentMigrationId ] } :
        /\ running' = [ running EXCEPT !.other = <<>> ]
        /\ Stepped("getOrCreateMigrationId.insert", m)

\* the life cycle of sessions
Next ==
  \/ Tick /\ Idle
  \/ StartNewMigration /\ Idle
  \/ GetOrCreateMigrationId /\ Idle
  \/ CreateFailedFileMigration /\ Idle
  \/ HandleCodeUpload(SmallUploads) /\ Idle
  \/ CleanupEmptyMigrations /\ Idle
  \/ DeleteMigration /\ Idle
  \/ SetCurrentMigrationId /\ Idle

Spec == Init /\ [][Next]_vars

\* uploads of every batch
NextUpload ==
  \/ HandleCodeUpload(AllUploads) /\ Idle
  \/ DeleteMigration /\ Idle

SpecUpload == Init /\ [][NextUpload]_vars

\* repeated getOrCreateMigrationId calls among the handlers that move the pointer
NextIdem ==
  \/ StartNewMigration /\ Track
  \/ GetOrCreateMigrationId /\ Track
  \/ HandleCodeUpload(SmallUploads) /\ Track
  \/ CleanupEmptyMigrations /\ Track
  \/ DeleteMigration /\ Track
  \/ SetCurrentMigrationId /\ Track

SpecIdem == Init /\ [][NextIdem]_vars

\* the conversion status of stored files
NextStatus ==
  \/ HandleCodeUpload(PairUploads) /\ Idle
  \/ UpdateFileStatus /\ Idle
  \/ MarkFileAsDeployed /\ Idle

SpecStatus == Init /\ [][NextStatus]_vars

\* the Dashboard controller over the manager
NextDashboard ==
  \/ SetActiveTab
  \/ HandleCodeUploadWrapper
  \/ HandleFileSelect
  \/ HandleManualEdit
  \/ HandleDismissIssue
  \/ HandleResetMigration
  \/ HandleConvertFile
  \/ HandleGenerateReportWrapper
  \/ CloseReport

SpecDashboard == Init /\ [][NextDashboard]_vars

\* uploads, selections, resets and manual edits alone
NextEdit ==
  \/ SetActiveTab
  \/ HandleCodeUploadWrapper
  \/ HandleFileSelect
  \/ HandleManualEdit
  \/ HandleResetMigration

SpecEdit == Init /\ [][NextEdit]_vars

\* the handlers that require a user, before and after a sign-out
NextAuth ==
  \/ SignOut /\ Idle
  \/ StartNewMigration /\ Idle
  \/ HandleCodeUpload(SmallUploads) /\ Idle
  \/ SaveDeploymentLog /\ Idle

SpecAuth == Init /\ [][NextAuth]_vars

\* uploads, batch after batch, into the session the first one creates
NextBatch ==
  \/ HandleCodeUpload(BatchUploads) /\ Idle

SpecBatch == Init /\ [][NextBatch]_vars

\* reconversions asked for through window.handleFileReconvert
NextReconvert ==
  \/ HandleCodeUploadWrapper
  \/ HandleFileSelect
  \/ HandleFileReconvert
  \/ HandleFileReconvertResume

SpecReconvert == Init /\ [][NextReconvert]_vars

\* the calls that move the pointer or delete sessions, as time passes
NextPointer ==
  \/ Tick /\ Idle
  \/ StartNewMigration /\ Idle
  \/ GetOrCreateMigrationId /\ Idle
  \/ HandleCodeUpload(SmallUploads) /\ Idle
  \/ CleanupEmptyMigrations /\ Idle
  \/ DeleteMigration /\ Idle

SpecPointer == Init /\ [][NextPointer]_vars

\* an upload in one client while the other client cleans up or asks for a session
NextRace ==
  \/ Tick /\ Idle
  \/ UploadSession
  \/ UploadSelect
  \/ UploadSave
  \/ OtherCleanupSelect
  \/ OtherGetOrCreateSelect
  \/ OtherDelete
  \/ OtherInsert

SpecRace == Init /\ [][NextRace]_vars

\* ------------------------------------------------------------------ claims
\* the rows of session mid whose file_name equals name, ignoring case
NamedRows(rows, mid, name) ==
  { r \in FilesOf(rows, mid) : ToLowerCase(r.file_name) = ToLowerCase(name) }

\* the backend calls of the last handler all succeeded
CallsOk(l) == \A i \in DOMAIN l.calls : l.calls[i][2]

\* C1: for every handleCodeUpload call by a signed-in user and every uploaded file
\* whose name equals, ignoring case, the file_name of a row already stored in the
\* target session, the rows of that session with that name are after the call
\* exactly the rows before it: none added, none changed.
C1_StoredNameUntouched ==
  [][ last'.op = "handleCodeUpload" =>
        \A k \in DOMAIN last'.ret :
           LET before == NamedRows(migration_files, currentMigrationId', last'.ret[k].name)
           IN  before # {} =>
                 NamedRows(migration_files', currentMigrationId', last'.ret[k].name) = before
    ]_vars

\* files i and j of an upload, i before j, have names that differ only by letter case
CaseTwins(fs, i, j) ==
  /\ i \in DOMAIN fs /\ j \in DOMAIN fs /\ i < j
  /\ fs[i].name # fs[j].name
  /\ ToLowerCase(fs[i].name) = ToLowerCase(fs[j].name)

\* the row handleCodeUpload stores for file f in session mid, whatever its id
IsRowOf(r, mid, f) ==
  /\ r.migration_id = mid
  /\ r.file_name = f.name
  /\ r.original_content = f.content
  /\ r.conversion_status = "pending"

\* C5 as stated: when one batch holds two files whose names differ only by letter
\* case, the second is skipped, and after the call the session holds at most one row
\* for that name, which is the first file's row.
C5_SecondTwinSkipped ==
  [][ last'.op = "handleCodeUpload" =>
        \A i, j \in DOMAIN last'.ret :
           CaseTwins(last'.ret, i, j) =>
             LET rows == NamedRows(migration_files', currentMigrationId', last'.ret[i].name)
             IN  /\ last'.log[j] = "skip"
                 /\ Cardinality(rows) <= 1
                 /\ \A r \in rows : IsRowOf(r, currentMigrationId', last'.ret[i])
    ]_vars

\* C5 amended: when one batch holds two files whose names differ only by letter
\* case, the session holds no row of that name before the call and the insert of the
\* first file succeeds, the second is skipped, and after the call the session holds
\* exactly one row for that name, which is the first file's row.
C5_SecondTwinSkippedAfterSave ==
  [][ last'.op = "handleCodeUpload" =>
        \A i, j \in DOMAIN last'.ret :
           ( /\ CaseTwins(last'.ret, i, j)
             /\ NamedRows(migration_files, currentMigrationId', last'.ret[i].name) = {}
             /\ last'.log[i] = "saved" ) =>
             LET rows == NamedRows(migration_files', currentMigrationId', last'.ret[i].name)
             IN  /\ last'.log[j] = "skip"
                 /\ Cardinality(rows) = 1
                 /\ \A r \in rows : IsRowOf(r, currentMigrationId', last'.ret[i])
    ]_vars

\* an upload has saved the first of two such files and skipped the second
C5_Witness ==
  /\ last.op = "handleCodeUpload"
  /\ \E i, j \in DOMAIN last.ret :
        /\ CaseTwins(last.ret, i, j)
        /\ last.log[i] = "saved"
        /\ last.log[j] = "skip"
        /\ \E r \in migration_files : IsRowOf(r, currentMigrationId, last.ret[i])

\* the last handler made backend call kind, with outcome ok
Made(l, kind, ok) == \E i \in DOMAIN l.calls : l.calls[i] = <<kind, ok>>

\* session r belongs to the signed-in user and was created within / before the
\* last 24 hours
IsRecent(r) == r.user_id = user /\ r.created_at >= now - TwentyFourHours
IsOld(r) == r.user_id = user /\ r.created_at < now - TwentyFourHours

\* C2 as stated: once a first getOrCreateMigrationId call has returned a session id,
\* every later call, with no deleteMigration or setCurrentMigrationId in between,
\* returns that id and makes no backend call.
C2_SameIdSinceFirstCall ==
  [][ (last'.op = "getOrCreateMigrationId" /\ held.since # Null) =>
        /\ last'.ret = held.since
        /\ last'.calls = <<>>
        /\ migrations' = migrations /\ migration_files' = migration_files
    ]_vars

\* C2 amended: once a first getOrCreateMigrationId call has returned a session id,
\* every later call, with no deleteMigration, setCurrentMigrationId or
\* startNewMigration in between, returns that id and makes no backend call.
C2_SameIdSinceFirstCallOrStart ==
  [][ (last'.op = "getOrCreateMigrationId" /\ held.sinceStart # Null) =>
        /\ last'.ret = held.sinceStart
        /\ last'.calls = <<>>
        /\ migrations' = migrations /\ migration_files' = migration_files
    ]_vars

\* a later call has returned the id of the first one, after the session it names
\* was created by the first
C2_Witness ==
  /\ last.op = "getOrCreateMigrationId"
  /\ held.again
  /\ last.ret = held.sinceStart
  /\ last.ret # Null

\* C3: after cleanupEmptyMigrations, when its backend calls succeed, no session of
\* the user that was older than 24 hours and had no file row is left; and whatever
\* the outcome of the calls, every session that had a file row is still there with
\* its rows.
C3_CleanupDeletesOldEmptyOnly ==
  [][ last'.op = "cleanupEmptyMigrations" =>
        /\ CallsOk(last') =>
             \A r \in migrations :
                (IsOld(r) /\ FilesOf(migration_files, r.id) = {}) => r \notin migrations'
        /\ \A r \in migrations :
              FilesOf(migration_files, r.id) # {} =>
                /\ r \in migrations'
                /\ FilesOf(migration_files', r.id) = FilesOf(migration_files, r.id)
    ]_vars

\* a cleanup has deleted sessions and left an older-than-24-hours session that has
\* a file row
C3_Witness ==
  /\ last.op = "cleanupEmptyMigrations"
  /\ Made(last, "delete_migrations", TRUE)
  /\ \E r \in migrations : IsOld(r) /\ FilesOf(migration_files, r.id) # {}

\* C6: getOrCreateMigrationId, called by a signed-in user with no current session
\* and no session of that user created within the last 24 hours, deletes no row
\* and, when the insert succeeds, inserts exactly one session row, returns its id
\* and leaves the current-session pointer equal to it.
C6_CreatesOneSession ==
  [][ ( /\ last'.op = "getOrCreateMigrationId"
        /\ user # NoUser
        /\ currentMigrationId = Null
        /\ \A r \in migrations : ~IsRecent(r) ) =>
        /\ migrations \subseteq migrations'
        /\ migration_files' = migration_files
        /\ Made(last', "insert_migration", FALSE) \/ Made(last', "insert_migration", TRUE)
        /\ Made(last', "insert_migration", TRUE) =>
             /\ Cardinality(migrations' \ migrations) = 1
             /\ \A r \in migrations' \ migrations :
                   r.id = last'.ret /\ r.user_id = user /\ r.created_at = now
             /\ last'.ret # Null
             /\ currentMigrationId' = last'.ret
    ]_vars

\* such a call has created a session while an older session of the user, empty,
\* stays stored
C6_Witness ==
  /\ last.op = "getOrCreateMigrationId"
  /\ last.cur0 = Null
  /\ last.calls = << <<"select_recent", TRUE>>, <<"insert_migration", TRUE>> >>
  /\ currentMigrationId = last.ret
  /\ \E r \in migrations : IsOld(r) /\ FilesOf(migration_files, r.id) = {}
  /\ \A r \in migrations : IsRecent(r) => r.id = last.ret

\* C7: a successful deleteMigration(id) sets the current-session pointer to null
\* when id is the current session, and leaves it as it was for any other id.
C7_DeleteClearsOnlyCurrent ==
  [][ (last'.op = "deleteMigration" /\ last'.ret = TRUE) =>
        currentMigrationId' =
          IF currentMigrationId = last'.arg THEN Null ELSE currentMigrationId
    ]_vars

\* a successful deleteMigration of a session other than the current one
C7_Witness ==
  /\ last.op = "deleteMigration"
  /\ last.ret = TRUE
  /\ last.cur0 # Null
  /\ last.arg # last.cur0
  /\ currentMigrationId = last.cur0

\* the newest of the user's sessions created within the last 24 hours
IsMostRecent(r) ==
  /\ r \in migrations
  /\ IsRecent(r)
  /\ \A q \in migrations :
        IsRecent(q) =>
          \/ q.created_at < r.created_at
          \/ (q.created_at = r.created_at /\ q.id <= r.id)

\* C9: getOrCreateMigrationId with no current session, when the user's most recent
\* session of the last 24 hours exists and the read of it succeeds: if that session
\* has a file row it is returned and becomes current, and no row is inserted or
\* deleted; if it has none and the delete and the insert succeed, it is deleted and
\* the id of a newly created session is returned.
C9_ReuseOrReplaceRecent ==
  [][ ( /\ last'.op = "getOrCreateMigrationId"
        /\ currentMigrationId = Null
        /\ Made(last', "select_recent", TRUE) ) =>
        \A r \in migrations :
           IsMostRecent(r) =>
             /\ FilesOf(migration_files, r.id) # {} =>
                  /\ last'.ret = r.id
                  /\ currentMigrationId' = r.id
                  /\ migrations' = migrations
                  /\ migration_files' = migration_files
                  /\ last'.calls = << <<"select_recent", TRUE>> >>
             /\ ( /\ FilesOf(migration_files, r.id) = {}
                  /\ Made(last', "delete_migration", TRUE)
                  /\ Made(last', "insert_migration", TRUE) ) =>
                  /\ r \notin migrations'
                  /\ last'.ret # Null /\ last'.ret # r.id
                  /\ \E n \in migrations' \ migrations : n.id = last'.ret
                  /\ currentMigrationId' = last'.ret
             /\ FilesOf(migration_files, r.id) = {} =>
                  \/ Made(last', "delete_migration", TRUE)
                  \/ Made(last', "delete_migration", FALSE)
    ]_vars

\* a call has deleted the empty recent session and returned a new one
C9_Witness ==
  /\ last.op = "getOrCreateMigrationId"
  /\ last.calls = << <<"select_recent", TRUE>>, <<"delete_migration", TRUE>>,
                     <<"insert_migration", TRUE>> >>
  /\ currentMigrationId = last.ret
  /\ \E r \in migrations : r.id = last.ret /\ r.created_at = now

\* C4: updateFileStatus(fileId, status, ...) adds and removes no row and changes no
\* row but the one with that id; in that row, when the update succeeds,
\* conversion_status and updated_at are written and each of converted_content,
\* error_message, data_type_mapping, performance_metrics and issues holds the
\* argument when one was supplied and its former value when it was omitted; every
\* other column keeps its value.
Supplied(stored, given, was) == stored = (IF given # Undefined THEN given ELSE was)

C4_PartialUpdate ==
  [][ last'.op = "updateFileStatus" =>
        LET c == last'.arg IN
        /\ { r.id : r \in migration_files' } = { r.id : r \in migration_files }
        /\ \A r \in migration_files : r.id # c.fileId => r \in migration_files'
        /\ \A r \in migration_files, q \in migration_files' :
              (r.id = c.fileId /\ q.id = c.fileId) =>
                IF last'.ret = TRUE
                THEN /\ q.conversion_status = c.status
                     /\ q.updated_at = now
                     /\ Supplied(q.converted_content, c.opt.convertedContent,
                                 r.converted_content)
                     /\ Supplied(q.error_message, c.opt.errorMessage, r.error_message)
                     /\ Supplied(q.data_type_mapping, c.opt.dataTypeMapping,
                                 r.data_type_mapping)
                     /\ Supplied(q.performance_metrics, c.opt.performanceMetrics,
                                 r.performance_metrics)
                     /\ Supplied(q.issues, c.opt.issues, r.issues)
                     /\ q.migration_id = r.migration_id
                     /\ q.file_name = r.file_name /\ q.file_path = r.file_path
                     /\ q.original_content = r.original_content
                     /\ q.deployment_timestamp = r.deployment_timestamp
                ELSE q = r
    ]_vars

\* an update that supplied error_message and omitted converted_content has left the
\* converted_content stored before, beside a second row
C4_Witness ==
  /\ last.op = "updateFileStatus"
  /\ last.ret = TRUE
  /\ last.arg.opt.convertedContent = Undefined
  /\ last.arg.opt.errorMessage = "a"
  /\ last.arg.status = "failed"
  /\ \E r \in migration_files :
        /\ r.id = last.arg.fileId
        /\ r.converted_content = "b"
        /\ r.error_message = "a"
        /\ r.conversion_status = "failed"
  /\ \E r \in migration_files : r.id # last.arg.fileId

\* C8 as stated: right after handleManualEdit(newContent) on a selected file, the
\* file list has an entry with the selected file's id, every such entry is
\* identical to the selected-file object, and both hold newContent as
\* convertedContent.
C8_EditInBothPlaces ==
  [][ last'.op = "handleManualEdit" =>
        /\ selectedFile' # <<>>
        /\ selectedFile'[1].convertedContent = last'.arg
        /\ \E i \in DOMAIN files' : files'[i].id = selectedFile'[1].id
        /\ \A i \in DOMAIN files' :
              files'[i].id = selectedFile'[1].id => files'[i] = selectedFile'[1]
    ]_vars

\* C10 as stated: handleResetMigration clears the file list, the conversion
\* results, the selected file and the report and returns to the upload tab, and
\* the upload that follows a reset uses a session other than the one that was
\* current before the reset.
C10_ResetStartsFreshSession ==
  [][ /\ last'.op = "handleResetMigration" =>
           /\ files' = <<>> /\ conversionResults' = <<>>
           /\ selectedFile' = <<>> /\ report' = NullText
           /\ activeTab' = "upload"
      /\ ( /\ last.op = "handleResetMigration"
           /\ last.cur0 # Null
           /\ last'.op = "handleCodeUploadWrapper" ) =>
           currentMigrationId' # last.cur0
    ]_vars

\* C11: while no user is signed in, startNewMigration, handleCodeUpload and
\* saveDeploymentLog make no backend call, leave the three tables and the
\* current-session pointer as they were and return null, the empty list and null.
C11_NoUserNoWrite ==
  [][ ( /\ user = NoUser
        /\ last'.op \in { "startNewMigration", "handleCodeUpload", "saveDeploymentLog" } ) =>
        /\ last'.calls = <<>>
        /\ migrations' = migrations
        /\ migration_files' = migration_files
        /\ deployment_logs' = deployment_logs
        /\ currentMigrationId' = currentMigrationId
        /\ last'.ret = IF last'.op = "handleCodeUpload" THEN <<>> ELSE Null
    ]_vars

\* an upload was refused after the sign-out of a user whose session is current and
\* holds a file row
C11_Witness ==
  /\ user = NoUser
  /\ last.op = "handleCodeUpload"
  /\ last.ret = <<>>
  /\ currentMigrationId # Null
  /\ FilesOf(migration_files, currentMigrationId) # {}

\* C12: deleteMigration(id) deletes the file rows of the session first and the
\* session row only after that deletion succeeded; when the deletion of the file
\* rows fails no row of either table changes; when either deletion fails the call
\* returns false, the session row stays and the current-session pointer is as it
\* was, also when it is id.
C12_DeleteStopsAtFailure ==
  [][ last'.op = "deleteMigration" =>
        LET c == last'.calls IN
        /\ Len(c) \in 1..2
        /\ c[1][1] = "delete_files"
        /\ Len(c) = 2 => (c[1][2] /\ c[2][1] = "delete_migration")
        /\ ~c[1][2] =>
             /\ Len(c) = 1
             /\ migrations' = migrations
             /\ migration_files' = migration_files
        /\ (\E i \in DOMAIN c : ~c[i][2]) =>
             /\ last'.ret = FALSE
             /\ migrations' = migrations
             /\ currentMigrationId' = currentMigrationId
    ]_vars

\* the deletion of the current session failed at its session row, after the file
\* rows were deleted: the row and the pointer are still there
C12_Witness ==
  /\ last.op = "deleteMigration"
  /\ last.calls = << <<"delete_files", TRUE>>, <<"delete_migration", FALSE>> >>
  /\ last.ret = FALSE
  /\ currentMigrationId = last.arg
  /\ \E r \in migrations : r.id = last.arg
  /\ FilesOf(migration_files, last.arg) = {}
  /\ nextFileRowId > 1

\* file j of the upload just made was a duplicate: its name was read among the rows
\* of the session, or an earlier file of the batch with that name was stored
WasDuplicate(j) ==
  LET out == last'.ret
      mid == currentMigrationId'
  IN  \/ /\ Made(last', "select_files", TRUE)
         /\ NamedRows(migration_files, mid, out[j].name) # {}
      \/ \E i \in 1..(j - 1) :
            /\ ToLowerCase(out[i].name) = ToLowerCase(out[j].name)
            /\ \E r \in migration_files' \ migration_files : IsRowOf(r, mid, out[i])

\* C13: a handleCodeUpload of a signed-in user that has its session goes through
\* the whole batch whatever the inserts answer: every file that is no duplicate has
\* its insert attempted, also after a failed one, and its row is stored when the
\* insert succeeds; the call returns one FileItem per input file, in input order,
\* pending, with no convertedContent and no errorMessage.
C13_FailureKeepsBatchGoing ==
  [][ ( /\ last'.op = "handleCodeUpload"
        /\ user # NoUser
        /\ \E ok \in BOOLEAN : Made(last', "select_files", ok) ) =>
        LET in == last'.arg
            out == last'.ret
            log == last'.log
            new == migration_files' \ migration_files
            tried == { i \in DOMAIN last'.calls : last'.calls[i][1] = "insert_file" }
        IN  /\ Len(out) = Len(in)
            /\ Len(log) = Len(in)
            /\ \A k \in DOMAIN in :
                  /\ out[k].id = in[k].id
                  /\ out[k].name = in[k].name
                  /\ out[k].path = in[k].name
                  /\ out[k].content = in[k].content
                  /\ out[k].conversionStatus = "pending"
                  /\ out[k].convertedContent = Undefined
                  /\ out[k].errorMessage = Undefined
                  /\ log[k] = "skip" <=> WasDuplicate(k)
                  /\ log[k] = "saved" <=>
                        \E r \in new : IsRowOf(r, currentMigrationId', out[k])
            /\ Cardinality(tried) = Cardinality({ k \in DOMAIN in : ~WasDuplicate(k) })
            /\ Cardinality(new) = Cardinality({ k \in DOMAIN in : log[k] = "saved" })
    ]_vars

\* the insert of the first file failed and the second file, which came with
\* metadata of an earlier conversion, was stored and returned as pending
C13_Witness ==
  /\ last.op = "handleCodeUpload"
  /\ Len(last.arg) = 2
  /\ last.log = << "error", "saved" >>
  /\ "conversionStatus" \in DOMAIN last.arg[2]
  /\ last.arg[2].convertedContent = "a"
  /\ last.ret[2].conversionStatus = "pending"
  /\ \E r \in migration_files : IsRowOf(r, currentMigrationId, last.ret[2])

\* C14 as stated: while an invocation of handleFileReconvert awaits its
\* handleConvertFile call the active custom prompt is the prompt that invocation
\* set, and when no invocation is in flight the active custom prompt is empty.
C14_PromptHeldUntilReset ==
  /\ \A k \in Invocations :
        inFlight[k] # NotInFlight => customPrompt = inFlight[k].prompt
  /\ (\A k \in Invocations : inFlight[k] = NotInFlight) => customPrompt = NoPrompt

\* C15 as stated: in every reachable state the current-session pointer is null or
\* the id of a session row stored in the backend.
C15_PointerNamesStoredSession ==
  \/ currentMigrationId = Null
  \/ \E r \in migrations : r.id = currentMigrationId

\* C16 as stated: while an upload of one client interleaves with
\* cleanupEmptyMigrations or getOrCreateMigrationId of another client of the same
\* user, no session is deleted while it holds a file row, no file row is inserted
\* for a session that is not stored, and every file row belongs to a stored session.
C16_NoSessionLostWithRows ==
  [][ /\ \A r \in migrations :
           FilesOf(migration_files, r.id) # {} => r \in migrations'
      /\ \A f \in migration_files' \ migration_files :
           \E r \in migrations : r.id = f.migration_id
      /\ \A f \in migration_files' :
           \E r \in migrations' : r.id = f.migration_id
    ]_vars

====
